---- MODULE Spec2Model ----
(***************************************************************************)
(* A model of transformer.py (a from-scratch Vision Transformer encoder   *)
(* and its training script).  Tensors are modelled as a shape plus the    *)
(* contents in contiguous (row-major) order; the indexing operations of   *)
(* the tensor library (unfold, view, transpose, broadcasting add) are     *)
(* modelled by the index arithmetic they perform.  Learned linear maps,   *)
(* softmax and layer normalisation are modelled by their effect on the    *)
(* shape and by the data flow between them.                               *)
(***************************************************************************)
EXTENDS Integers, Sequences, FiniteSets, TLC

(***************************************************************************)
(* Bounds of the model.                                                    *)
(***************************************************************************)
MaxImg == 3
MaxBatch == 2
MaxChannels == 3
MaxDModel == 4
MaxHeads == 3
MaxLayers == 2
MaxDff == 2
MaxClasses == 2
MaxLen == 3
MaxSamples == 60

(***************************************************************************)
(* Tensors: [err, shape, data]; data[k+1] is the element at row-major     *)
(* offset k.  A raised exception is a tensor with a non-empty err.         *)
(***************************************************************************)
RECURSIVE Prod(_)
Prod(s) == IF s = <<>> THEN 1 ELSE Head(s) * Prod(Tail(s))

Raised(e) == [err |-> e, shape |-> <<>>, data |-> <<>>]

Unravel(shape, k) ==
    [d \in 1..Len(shape) |->
        (k \div Prod(SubSeq(shape, d + 1, Len(shape)))) % shape[d]]

RECURSIVE Ravel(_, _)
Ravel(shape, idx) ==
    IF shape = <<>> THEN 0
    ELSE Head(idx) * Prod(Tail(shape)) + Ravel(Tail(shape), Tail(idx))

At(t, idx) == t.data[Ravel(t.shape, idx) + 1]

\* Tensor.unfold(dim, size, step); dim is 0-based as in the source.
Unfold(t, dim, size, step) ==
    IF t.err # "" THEN t
    ELSE IF t.shape[dim + 1] < size THEN Raised("RuntimeError")
    ELSE
      LET n == Len(t.shape)
          newshape == [d \in 1..(n + 1) |->
                         IF d = dim + 1 THEN (t.shape[d] - size) \div step + 1
                         ELSE IF d = n + 1 THEN size
                         ELSE t.shape[d]]
      IN [err |-> "",
          shape |-> newshape,
          data |-> [k \in 1..Prod(newshape) |->
                      LET idx == Unravel(newshape, k - 1)
                          src == [d \in 1..n |->
                                    IF d = dim + 1
                                    THEN idx[d] * step + idx[n + 1]
                                    ELSE idx[d]]
                      IN At(t, src)]]

\* Tensor.contiguous().view(first, -1, *rest): the contents in row-major
\* order are kept and the shape is replaced, the -1 being inferred.
ViewShape(shape, first, rest) ==
    IF first * Prod(rest) = 0 \/ Prod(shape) % (first * Prod(rest)) # 0
    THEN [err |-> "RuntimeError", shape |-> <<>>]
    ELSE [err |-> "",
          shape |-> <<first, Prod(shape) \div (first * Prod(rest))>> \o rest]

View(t, first, rest) ==
    IF t.err # "" THEN t
    ELSE IF ViewShape(t.shape, first, rest).err # "" THEN Raised("RuntimeError")
    ELSE [err |-> "",
          shape |-> ViewShape(t.shape, first, rest).shape,
          data |-> t.data]

\* Tensor.transpose(1, 2) of a 4-dimensional tensor, made contiguous.
Transpose12(t) ==
    IF t.err # "" THEN t
    ELSE
      LET newshape == <<t.shape[1], t.shape[3], t.shape[2], t.shape[4]>>
      IN [err |-> "",
          shape |-> newshape,
          data |-> [k \in 1..Prod(newshape) |->
                      LET idx == Unravel(newshape, k - 1)
                      IN At(t, <<idx[1], idx[3], idx[2], idx[4]>>)]]

\* The shape of a broadcasting elementwise operation on two shapes of the
\* same rank.
Broadcast(s1, s2) ==
    IF \E d \in 1..Len(s1) : s1[d] # s2[d] /\ s1[d] # 1 /\ s2[d] # 1
    THEN [err |-> "RuntimeError", shape |-> <<>>]
    ELSE [err |-> "",
          shape |-> [d \in 1..Len(s1) |-> IF s1[d] = 1 THEN s2[d] ELSE s1[d]]]

\* t[:, :n, :] of a 3-dimensional tensor.
SliceDim1(t, n) ==
    LET newshape == <<t.shape[1], IF n < t.shape[2] THEN n ELSE t.shape[2],
                      t.shape[3]>>
    IN [err |-> "",
        shape |-> newshape,
        data |-> [k \in 1..Prod(newshape) |-> At(t, Unravel(newshape, k - 1))]]

\* a + b with broadcasting.  Sums are kept symbolic: the element that is the
\* sum of u and v is [lhs |-> u, rhs |-> v].
BroadcastAdd(a, b) ==
    IF Broadcast(a.shape, b.shape).err # "" THEN Raised("RuntimeError")
    ELSE
      LET newshape == Broadcast(a.shape, b.shape).shape
          Pick(t, idx) == At(t, [d \in 1..Len(idx) |->
                                   IF t.shape[d] = 1 THEN 0 ELSE idx[d]])
      IN [err |-> "",
          shape |-> newshape,
          data |-> [k \in 1..Prod(newshape) |->
                      [lhs |-> Pick(a, Unravel(newshape, k - 1)),
                       rhs |-> Pick(b, Unravel(newshape, k - 1))]]]

(***************************************************************************)
(* Constructors.  A constructor returns [status, error, site, self]: the  *)
(* exception raised and the place that raised it, or the object's fields.  *)
(***************************************************************************)
NoFields == [patch_size |-> 0, num_patches |-> 0, patch_dim |-> 0,
             d_model |-> 0, num_heads |-> 0, d_k |-> 0, d_ff |-> 0,
             num_layers |-> 0, max_len |-> 0, num_classes |-> 0]

Built(fields) == [status |-> "ok", error |-> "", site |-> "", self |-> fields]

Failed(e, where) == [status |-> "raised", error |-> e, site |-> where,
                     self |-> NoFields]

\* PositionalEncoding.__init__: pe[:, 0::2] has ceil(d_model/2) columns, as
\* has div_term; pe[:, 1::2] has floor(d_model/2) columns, and the
\* ceil(d_model/2) columns of cosines assigned to it must have that many
\* columns or a single one.
PositionalEncodingInit(d_model, max_len) ==
    LET half == (d_model + 1) \div 2
        odd_cols == d_model \div 2
    IN IF half # odd_cols /\ half # 1
       THEN Failed("RuntimeError", "PositionalEncoding.__init__")
       ELSE Built([NoFields EXCEPT !.d_model = d_model, !.max_len = max_len])

MultiHeadAttentionInit(d_model, num_heads) ==
    IF d_model % num_heads # 0
    THEN Failed("AssertionError", "MultiHeadAttention.__init__")
    ELSE Built([NoFields EXCEPT !.d_model = d_model, !.num_heads = num_heads,
                                !.d_k = d_model \div num_heads])

EncoderLayerInit(d_model, num_heads, d_ff) ==
    LET attention == MultiHeadAttentionInit(d_model, num_heads)
    IN IF attention.status # "ok" THEN attention
       ELSE Built([attention.self EXCEPT !.d_ff = d_ff])

\* The layers built by the list comprehension of TransformerEncoder.__init__.
EncoderLayerRange(num_layers) == 1..num_layers

TransformerEncoderInit(a) ==
    LET geo == [patch_size |-> a.patch_size,
                num_patches |-> (a.img_size \div a.patch_size)
                                  * (a.img_size \div a.patch_size),
                patch_dim |-> 3 * a.patch_size * a.patch_size]
        posenc == PositionalEncodingInit(a.d_model, geo.num_patches)
        layers == [i \in EncoderLayerRange(a.num_layers) |->
                     EncoderLayerInit(a.d_model, a.num_heads, a.d_ff)]
    IN IF posenc.status # "ok" THEN posenc
       ELSE IF \E i \in DOMAIN layers : layers[i].status # "ok"
            THEN layers[CHOOSE i \in DOMAIN layers :
                          /\ layers[i].status # "ok"
                          /\ \A j \in DOMAIN layers :
                               layers[j].status # "ok" => i <= j]
       ELSE Built([patch_size |-> geo.patch_size,
                   num_patches |-> geo.num_patches,
                   patch_dim |-> geo.patch_dim,
                   d_model |-> a.d_model,
                   num_heads |-> a.num_heads,
                   d_k |-> a.d_model \div a.num_heads,
                   d_ff |-> a.d_ff,
                   num_layers |-> a.num_layers,
                   max_len |-> geo.num_patches,
                   num_classes |-> a.num_classes])

patchify(self, imgs) ==
    LET batch_size == imgs.shape[1]
        unfolded == Unfold(Unfold(imgs, 2, self.patch_size, self.patch_size),
                           3, self.patch_size, self.patch_size)
    IN View(unfolded, batch_size, <<self.patch_dim>>)

(***************************************************************************)
(* The shapes computed by the forward methods.  A shape result is          *)
(* [err, shape].                                                           *)
(***************************************************************************)
Min(a, b) == IF a < b THEN a ELSE b

ShapeError == [err |-> "RuntimeError", shape |-> <<>>]

\* nn.Linear(in_features, out_features) and nn.LayerNorm(width) act on the
\* last axis.
LinearShape(in_features, out_features, shape) ==
    IF shape[Len(shape)] # in_features THEN ShapeError
    ELSE [err |-> "", shape |-> [shape EXCEPT ![Len(shape)] = out_features]]

LayerNormShape(width, shape) ==
    IF shape[Len(shape)] # width THEN ShapeError
    ELSE [err |-> "", shape |-> shape]

\* PositionalEncoding.forward: x + self.pe[:, :x.size(1), :]
PositionalEncodingForwardShape(self, shape) ==
    Broadcast(shape, <<1, Min(shape[2], self.max_len), self.d_model>>)

\* The head split of MultiHeadAttention.forward, on shapes: view then
\* transpose(1, 2).
SplitShape(self, shape) ==
    LET projected == LinearShape(self.d_model, self.d_model, shape)
        viewed == ViewShape(projected.shape, shape[1], <<self.num_heads, self.d_k>>)
    IN IF projected.err # "" THEN projected
       ELSE IF viewed.err # "" THEN viewed
       ELSE [err |-> "",
             shape |-> <<viewed.shape[1], viewed.shape[3], viewed.shape[2],
                         viewed.shape[4]>>]

\* MultiHeadAttention.forward(x, x, x): [B,H,L,d_k] per projection, scores
\* [B,H,L,L], weighted sum [B,H,L,d_k], heads concatenated, out_proj.
MultiHeadAttentionForwardShape(self, shape) ==
    LET q == SplitShape(self, shape)
        merged == ViewShape(<<q.shape[1], q.shape[3], q.shape[2], q.shape[4]>>,
                            shape[1], <<self.num_heads * self.d_k>>)
    IN IF q.err # "" THEN q
       ELSE IF merged.err # "" THEN merged
       ELSE LinearShape(self.d_model, self.d_model, merged.shape)

\* PositionWiseFeedForward.forward: fc2(relu(fc1(x)))
FeedForwardShape(self, shape) ==
    LET hidden == LinearShape(self.d_model, self.d_ff, shape)
    IN IF hidden.err # "" THEN hidden
       ELSE LinearShape(self.d_ff, self.d_model, hidden.shape)

\* x.mean(dim=1)
MeanDim1Shape(shape) ==
    [err |-> "", shape |-> <<shape[1]>> \o SubSeq(shape, 3, Len(shape))]

(***************************************************************************)
(* The data flow of EncoderLayer.forward and TransformerEncoder.forward:   *)
(* every operation applied is recorded as [op, layer, args, out, shape],   *)
(* args and out being the numbers of the tensors consumed and produced.    *)
(***************************************************************************)
Applied(op, layer, args, out, shape) ==
    [op |-> op, layer |-> layer, args |-> args, out |-> out, shape |-> shape]

ResidualPreNorm(norm, layer, xv, sub, nid, shape) ==
    << Applied(norm, layer, <<xv.id>>, nid, shape),
       Applied("add", layer, <<nid, sub.id>>, nid + 1, shape) >>

\* self.normK(x + sub_output): the sum, then its normalisation.
ResidualNorm(norm, layer, xv, sub, nid, shape) ==
    << Applied("add", layer, <<xv.id, sub.id>>, nid, shape),
       Applied(norm, layer, <<nid>>, nid + 1, shape) >>

LoopNextSkipsLast(i, num_layers) ==
    IF i + 1 < num_layers THEN [pc |-> "attention", layer |-> i + 1]
    ELSE [pc |-> "norm", layer |-> i]

\* for layer in self.encoder_layers: where control goes after layer i.
LoopNext(i, num_layers) ==
    IF i < num_layers THEN [pc |-> "attention", layer |-> i + 1]
    ELSE [pc |-> "norm", layer |-> i]

(***************************************************************************)
(* PositionalEncoding.forward and the head split and concatenation of      *)
(* MultiHeadAttention.forward, on contents.                                *)
(***************************************************************************)
\* The buffer pe, [1, max_len, d_model].  Its entry at (pos, i), a sine or a
\* cosine, is kept symbolic as <<pos, i>>.
PeBuffer(self) ==
    [err |-> "",
     shape |-> <<1, self.max_len, self.d_model>>,
     data |-> [k \in 1..(self.max_len * self.d_model) |->
                 <<(k - 1) \div self.d_model, (k - 1) % self.d_model>>]]

\* x + self.pe[:, : x.size(1), :]
PositionalEncodingForward(self, xt) ==
    BroadcastAdd(xt, SliceDim1(PeBuffer(self), xt.shape[2]))

SplitHeadsNoTranspose(self, t) ==
    [err |-> "",
     shape |-> <<t.shape[1], self.num_heads, t.shape[2], self.d_k>>,
     data |-> t.data]

\* .view(batch_size, -1, self.num_heads, self.d_k).transpose(1, 2)
SplitHeads(self, t) ==
    Transpose12(View(t, t.shape[1], <<self.num_heads, self.d_k>>))

\* out.transpose(1, 2).contiguous().view(batch_size, -1, num_heads * d_k)
ConcatHeads(self, out, batch_size) ==
    View(Transpose12(out), batch_size, <<self.num_heads * self.d_k>>)

(***************************************************************************)
(* main: the hyperparameters and the loaders.                              *)
(***************************************************************************)
MainArgs == [img_size |-> 224, patch_size |-> 16, d_model |-> 256,
             num_heads |-> 8, num_layers |-> 6, d_ff |-> 1024,
             num_classes |-> 2]
batch_size == 16
num_epochs == 10

\* len(DataLoader(data, batch_size=batch_size)) for a dataset of n examples.
LoaderLen(n) == (n + batch_size - 1) \div batch_size

\* dataset.train_test_split(test_size=0.1): the sizes of the two parts.
TestSize(n) == (n + 9) \div 10
TrainSize(n) == n - TestSize(n)

(***************************************************************************)
(* State.                                                                  *)
(***************************************************************************)
VARIABLES
    args,         \* the arguments of a constructor call
    built,        \* the class constructed and the outcome of the call
    model,        \* the fields of a constructed TransformerEncoder
    images,       \* the image batch given to patchify / forward
    patches,      \* the result of patchify
    pc,           \* the statement of forward that runs next
    layer,        \* the encoder layer the loop of forward is in
    x,            \* the local x of forward: [id, shape]
    attn_output,  \* the local attn_output of EncoderLayer.forward
    ffn_output,   \* the local ffn_output of EncoderLayer.forward
    log,          \* the operations applied so far
    pe_input,     \* the x given to PositionalEncoding.forward
    pe_output,    \* what PositionalEncoding.forward returns
    projected,    \* a projection q_linear(Q) in MultiHeadAttention.forward
    heads,        \* the projection split into heads
    merged,       \* the heads concatenated
    mpc,          \* the statement of main that runs next
    bound,        \* the names bound in main's scope, with their lengths
    epoch,        \* the loop variable of main
    step,         \* the batches train has consumed
    calls         \* the calls of train and validate made, with their loader

ctorVars == <<args, built>>
patchVars == <<model, images, patches>>
fwdVars == <<pc, layer, x, attn_output, ffn_output, log>>
peVars == <<pe_input, pe_output>>
mhaVars == <<projected, heads, merged>>
mainVars == <<mpc, bound, epoch, step, calls>>
vars == <<args, built, model, images, patches, pc, layer, x, attn_output,
          ffn_output, log, pe_input, pe_output, projected, heads, merged,
          mpc, bound, epoch, step, calls>>

NoTensor == Raised("unset")
NoArgs == [img_size |-> 0, patch_size |-> 0, d_model |-> 0, num_heads |-> 0,
           num_layers |-> 0, d_ff |-> 0, num_classes |-> 0]
NotBuilt == [cls |-> "", status |-> "", error |-> "", site |-> ""]

IdleCtor == args = NoArgs /\ built = NotBuilt
IdlePatch == model = NoFields /\ images = NoTensor /\ patches = NoTensor
NoValue == [id |-> 0, shape |-> <<>>]
IdleFwd == /\ pc = "" /\ layer = 0 /\ x = NoValue /\ attn_output = NoValue
           /\ ffn_output = NoValue /\ log = <<>>
IdlePe == pe_input = NoTensor /\ pe_output = NoTensor
IdleMha == projected = NoTensor /\ heads = NoTensor /\ merged = NoTensor
NoNames == [n \in {} |-> 0]
IdleMain == /\ mpc = "" /\ bound = NoNames /\ epoch = 0 /\ step = 0
            /\ calls = <<>>

ConstructorArgs ==
    [img_size : 1..MaxImg, patch_size : 1..MaxImg, d_model : 1..MaxDModel,
     num_heads : 1..MaxHeads, num_layers : 0..MaxLayers, d_ff : 1..MaxDff,
     num_classes : 1..MaxClasses]

\* The configurations for which TransformerEncoder(...) returns an object.
Constructible == {a \in ConstructorArgs : TransformerEncoderInit(a).status = "ok"}

(***************************************************************************)
(* Construction of the three classes that take d_model and num_heads.      *)
(***************************************************************************)
InitConstruct ==
    /\ args \in ConstructorArgs
    /\ built = NotBuilt
    /\ IdlePatch
    /\ IdleFwd /\ IdlePe /\ IdleMha /\ IdleMain

Outcome(cls, r) ==
    [cls |-> cls, status |-> r.status, error |-> r.error, site |-> r.site]

ConstructMultiHeadAttention ==
    /\ built = NotBuilt
    /\ built' = Outcome("MultiHeadAttention",
                        MultiHeadAttentionInit(args.d_model, args.num_heads))
    /\ UNCHANGED <<args, patchVars, fwdVars, peVars, mhaVars, mainVars>>

ConstructEncoderLayer ==
    /\ built = NotBuilt
    /\ built' = Outcome("EncoderLayer",
                        EncoderLayerInit(args.d_model, args.num_heads, args.d_ff))
    /\ UNCHANGED <<args, patchVars, fwdVars, peVars, mhaVars, mainVars>>

ConstructTransformerEncoder ==
    /\ built = NotBuilt
    /\ built' = Outcome("TransformerEncoder", TransformerEncoderInit(args))
    /\ UNCHANGED <<args, patchVars, fwdVars, peVars, mhaVars, mainVars>>

NextConstruct ==
    \/ ConstructMultiHeadAttention
    \/ ConstructEncoderLayer
    \/ ConstructTransformerEncoder

SpecConstruct == InitConstruct /\ [][NextConstruct]_vars

(***************************************************************************)
(* patchify on image batches with three channels.                          *)
(***************************************************************************)
\* An image batch that is zero except in one place, or zero everywhere.
ImageBatch(shape, hot) ==
    [err |-> "", shape |-> shape,
     data |-> [k \in 1..Prod(shape) |-> IF k = hot THEN 1 ELSE 0]]

\* patchify reads patch_size and patch_dim alone, so the other arguments of
\* the constructor are kept at one value.
InitPatchify ==
    /\ \E a \in Constructible :
         /\ a.d_model = 1 /\ a.num_heads = 1 /\ a.num_layers = 0
         /\ a.d_ff = 1 /\ a.num_classes = 1
         /\ model = TransformerEncoderInit(a).self
         /\ \E B \in 1..MaxBatch :
              \E hot \in 0..(B * 3 * a.img_size * a.img_size) :
                 images = ImageBatch(<<B, 3, a.img_size, a.img_size>>, hot)
    /\ patches = NoTensor
    /\ IdleCtor
    /\ IdleFwd /\ IdlePe /\ IdleMha /\ IdleMain

CallPatchify ==
    /\ patches = NoTensor
    /\ patches' = patchify(model, images)
    /\ UNCHANGED <<model, images, ctorVars, fwdVars, peVars, mhaVars, mainVars>>

NextPatchify == CallPatchify

SpecPatchify == InitPatchify /\ [][NextPatchify]_vars

(***************************************************************************)
(* TransformerEncoder.forward, one action per statement, with              *)
(* EncoderLayer.forward inlined at the call `layer(x)`.                    *)
(***************************************************************************)
\* d_ff and num_classes each set the width of one tensor of forward and
\* nothing else, so forward is run at one value of each.
ForwardConfigs ==
    {a \in Constructible : a.d_ff = MaxDff /\ a.num_classes = MaxClasses}

InitForward ==
    /\ args \in ForwardConfigs
    /\ built = Outcome("TransformerEncoder", TransformerEncoderInit(args))
    /\ model = TransformerEncoderInit(args).self
    /\ \E B \in 1..MaxBatch, C \in 1..MaxChannels, H, W \in 1..MaxImg :
         images = ImageBatch(<<B, C, H, W>>, 0)
    /\ patches = NoTensor
    /\ pc = "patchify"
    /\ layer = 0
    /\ x = NoValue
    /\ attn_output = NoValue
    /\ ffn_output = NoValue
    /\ log = <<>>
    /\ IdlePe /\ IdleMha /\ IdleMain

NextId == Len(log) + 1

Raise ==
    /\ pc' = "raised"
    /\ UNCHANGED <<layer, x, attn_output, ffn_output, log, patches>>

\* x = self.patchify(x)
FwdPatchify ==
    /\ pc = "patchify"
    /\ LET r == patchify(model, images)
       IN IF r.err # "" THEN Raise
          ELSE /\ x' = [id |-> NextId, shape |-> r.shape]
               /\ log' = Append(log, Applied("patchify", 0, <<0>>, NextId, r.shape))
               /\ pc' = "patch_embedding"
               /\ UNCHANGED <<layer, attn_output, ffn_output, patches>>
    /\ UNCHANGED <<model, images, ctorVars, peVars, mhaVars, mainVars>>

\* x = self.patch_embedding(x)
FwdPatchEmbedding ==
    /\ pc = "patch_embedding"
    /\ LET r == LinearShape(model.patch_dim, model.d_model, x.shape)
       IN IF r.err # "" THEN Raise
          ELSE /\ x' = [id |-> NextId, shape |-> r.shape]
               /\ log' = Append(log, Applied("patch_embedding", 0, <<x.id>>,
                                            NextId, r.shape))
               /\ pc' = "positional_encoding"
               /\ UNCHANGED <<layer, attn_output, ffn_output, patches>>
    /\ UNCHANGED <<model, images, ctorVars, peVars, mhaVars, mainVars>>

\* x = self.positional_encoding(x), then the loop over self.encoder_layers
\* is entered.
FwdPositionalEncoding ==
    /\ pc = "positional_encoding"
    /\ LET r == PositionalEncodingForwardShape(model, x.shape)
       IN IF r.err # "" THEN Raise
          ELSE /\ x' = [id |-> NextId, shape |-> r.shape]
               /\ log' = Append(log, Applied("positional_encoding", 0, <<x.id>>,
                                            NextId, r.shape))
               /\ pc' = LoopNext(0, model.num_layers).pc
               /\ layer' = LoopNext(0, model.num_layers).layer
               /\ UNCHANGED <<attn_output, ffn_output, patches>>
    /\ UNCHANGED <<model, images, ctorVars, peVars, mhaVars, mainVars>>

\* EncoderLayer.forward: attn_output = self.attention(x, x, x)
LayerAttention ==
    /\ pc = "attention"
    /\ LET r == MultiHeadAttentionForwardShape(model, x.shape)
       IN IF r.err # "" THEN Raise
          ELSE /\ attn_output' = [id |-> NextId, shape |-> r.shape]
               /\ log' = Append(log, Applied("attention", layer,
                                            <<x.id, x.id, x.id>>, NextId, r.shape))
               /\ pc' = "norm1"
               /\ UNCHANGED <<layer, x, ffn_output, patches>>
    /\ UNCHANGED <<model, images, ctorVars, peVars, mhaVars, mainVars>>

\* EncoderLayer.forward: x = self.norm1(x + attn_output)
LayerNorm1 ==
    /\ pc = "norm1"
    /\ LET sum == Broadcast(x.shape, attn_output.shape)
           r == IF sum.err # "" THEN sum
                ELSE LayerNormShape(model.d_model, sum.shape)
       IN IF r.err # "" THEN Raise
          ELSE /\ log' = log \o ResidualNorm("norm1", layer, x, attn_output,
                                             NextId, r.shape)
               /\ x' = [id |-> log'[Len(log')].out, shape |-> r.shape]
               /\ pc' = "ffn"
               /\ UNCHANGED <<layer, attn_output, ffn_output, patches>>
    /\ UNCHANGED <<model, images, ctorVars, peVars, mhaVars, mainVars>>

\* EncoderLayer.forward: ffn_output = self.ffn(x)
LayerFfn ==
    /\ pc = "ffn"
    /\ LET r == FeedForwardShape(model, x.shape)
       IN IF r.err # "" THEN Raise
          ELSE /\ ffn_output' = [id |-> NextId, shape |-> r.shape]
               /\ log' = Append(log, Applied("ffn", layer, <<x.id>>, NextId, r.shape))
               /\ pc' = "norm2"
               /\ UNCHANGED <<layer, x, attn_output, patches>>
    /\ UNCHANGED <<model, images, ctorVars, peVars, mhaVars, mainVars>>

\* EncoderLayer.forward: x = self.norm2(x + ffn_output); return x, and the
\* loop of TransformerEncoder.forward goes on.
LayerNorm2 ==
    /\ pc = "norm2"
    /\ LET sum == Broadcast(x.shape, ffn_output.shape)
           r == IF sum.err # "" THEN sum
                ELSE LayerNormShape(model.d_model, sum.shape)
       IN IF r.err # "" THEN Raise
          ELSE /\ log' = log \o ResidualNorm("norm2", layer, x, ffn_output,
                                             NextId, r.shape)
               /\ x' = [id |-> log'[Len(log')].out, shape |-> r.shape]
               /\ pc' = LoopNext(layer, model.num_layers).pc
               /\ layer' = LoopNext(layer, model.num_layers).layer
               /\ UNCHANGED <<attn_output, ffn_output, patches>>
    /\ UNCHANGED <<model, images, ctorVars, peVars, mhaVars, mainVars>>

\* x = self.norm(x)
FwdNorm ==
    /\ pc = "norm"
    /\ LET r == LayerNormShape(model.d_model, x.shape)
       IN IF r.err # "" THEN Raise
          ELSE /\ x' = [id |-> NextId, shape |-> r.shape]
               /\ log' = Append(log, Applied("norm", 0, <<x.id>>, NextId, r.shape))
               /\ pc' = "mean"
               /\ UNCHANGED <<layer, attn_output, ffn_output, patches>>
    /\ UNCHANGED <<model, images, ctorVars, peVars, mhaVars, mainVars>>

\* x = x.mean(dim=1)
FwdMean ==
    /\ pc = "mean"
    /\ LET r == MeanDim1Shape(x.shape)
       IN /\ x' = [id |-> NextId, shape |-> r.shape]
          /\ log' = Append(log, Applied("mean", 0, <<x.id>>, NextId, r.shape))
          /\ pc' = "fc"
          /\ UNCHANGED <<layer, attn_output, ffn_output, patches>>
    /\ UNCHANGED <<model, images, ctorVars, peVars, mhaVars, mainVars>>

\* return self.fc(x)
FwdFc ==
    /\ pc = "fc"
    /\ LET r == LinearShape(model.d_model, model.num_classes, x.shape)
       IN IF r.err # "" THEN Raise
          ELSE /\ x' = [id |-> NextId, shape |-> r.shape]
               /\ log' = Append(log, Applied("fc", 0, <<x.id>>, NextId, r.shape))
               /\ pc' = "returned"
               /\ UNCHANGED <<layer, attn_output, ffn_output, patches>>
    /\ UNCHANGED <<model, images, ctorVars, peVars, mhaVars, mainVars>>

NextForward ==
    \/ FwdPatchify
    \/ FwdPatchEmbedding
    \/ FwdPositionalEncoding
    \/ LayerAttention
    \/ LayerNorm1
    \/ LayerFfn
    \/ LayerNorm2
    \/ FwdNorm
    \/ FwdMean
    \/ FwdFc

SpecForward == InitForward /\ [][NextForward]_vars

(***************************************************************************)
(* PositionalEncoding.forward on a constructed PositionalEncoding.         *)
(***************************************************************************)
\* The tensor of the given shape whose elements are all different.
Ramp(shape) ==
    [err |-> "", shape |-> shape, data |-> [k \in 1..Prod(shape) |-> k]]

InitPosEnc ==
    /\ \E d \in 1..MaxDModel, m \in 0..MaxLen :
         /\ PositionalEncodingInit(d, m).status = "ok"
         /\ model = PositionalEncodingInit(d, m).self
    /\ \E B \in 1..MaxBatch, L \in 1..(MaxLen + 1) :
         pe_input = Ramp(<<B, L, model.d_model>>)
    /\ pe_output = NoTensor
    /\ images = NoTensor /\ patches = NoTensor
    /\ IdleCtor /\ IdleFwd /\ IdleMha /\ IdleMain

CallPositionalEncoding ==
    /\ pe_output = NoTensor
    /\ pe_output' = PositionalEncodingForward(model, pe_input)
    /\ UNCHANGED <<pe_input, patchVars, ctorVars, fwdVars, mhaVars, mainVars>>

NextPosEnc == CallPositionalEncoding

SpecPosEnc == InitPosEnc /\ [][NextPosEnc]_vars

(***************************************************************************)
(* The head split and the head concatenation of MultiHeadAttention.forward,*)
(* the concatenation being applied to the split tensor itself.             *)
(***************************************************************************)
InitHeads ==
    /\ \E d \in 1..MaxDModel, h \in 1..MaxHeads :
         /\ MultiHeadAttentionInit(d, h).status = "ok"
         /\ model = MultiHeadAttentionInit(d, h).self
    /\ \E B \in 1..MaxBatch, L \in 1..MaxLen :
         \E hot \in 0..(B * L * model.d_model) :
            projected = ImageBatch(<<B, L, model.d_model>>, hot)
    /\ heads = NoTensor
    /\ merged = NoTensor
    /\ images = NoTensor /\ patches = NoTensor
    /\ IdleCtor /\ IdleFwd /\ IdlePe /\ IdleMain

MhaSplit ==
    /\ heads = NoTensor
    /\ heads' = SplitHeads(model, projected)
    /\ UNCHANGED <<projected, merged, patchVars, ctorVars, fwdVars, peVars,
                   mainVars>>

MhaConcat ==
    /\ heads # NoTensor
    /\ merged = NoTensor
    /\ merged' = ConcatHeads(model, heads, projected.shape[1])
    /\ UNCHANGED <<projected, heads, patchVars, ctorVars, fwdVars, peVars,
                   mainVars>>

NextHeads == MhaSplit \/ MhaConcat

SpecHeads == InitHeads /\ [][NextHeads]_vars

(***************************************************************************)
(* main.                                                                   *)
(***************************************************************************)
InitMain ==
    /\ mpc = "load"
    /\ bound = NoNames
    /\ epoch = 0
    /\ step = 0
    /\ calls = <<>>
    /\ IdlePatch /\ IdleCtor /\ IdleFwd /\ IdlePe /\ IdleMha

\* The value of a name in main: unbound names raise NameError.
IsBound(name) == name \in DOMAIN bound

\* try: load_and_preprocess_data(), DataLoader(train_data), DataLoader(val_data)
LoadDataOk ==
    /\ mpc = "load"
    /\ \E n \in 2..MaxSamples :
         bound' = [name \in {"train_data", "val_data", "train_loader",
                              "val_loader"} |->
                     CASE name = "train_data" -> TrainSize(n)
                       [] name = "val_data" -> TestSize(n)
                       [] name = "train_loader" -> LoaderLen(TrainSize(n))
                       [] name = "val_loader" -> LoaderLen(TestSize(n))]
    /\ mpc' = "model"
    /\ UNCHANGED <<epoch, step, calls, patchVars, ctorVars, fwdVars, peVars,
                   mhaVars>>

\* except Exception: print, return
LoadDataRaises ==
    /\ mpc = "load"
    /\ mpc' = "returned"
    /\ UNCHANGED <<bound, epoch, step, calls, patchVars, ctorVars, fwdVars,
                   peVars, mhaVars>>

\* model = TransformerEncoder(...), criterion, optimizer
InitializeModel ==
    /\ mpc = "model"
    /\ built' = Outcome("TransformerEncoder", TransformerEncoderInit(MainArgs))
    /\ model' = TransformerEncoderInit(MainArgs).self
    /\ mpc' = IF TransformerEncoderInit(MainArgs).status = "ok" THEN "epoch"
              ELSE "raised"
    /\ UNCHANGED <<args, images, patches, bound, epoch, step, calls, fwdVars,
                   peVars, mhaVars>>

\* for epoch in range(num_epochs): print(...)
EpochLoop ==
    /\ mpc = "epoch"
    /\ IF epoch < num_epochs
       THEN mpc' = "train" /\ step' = 0
       ELSE mpc' = "done" /\ UNCHANGED step
    /\ UNCHANGED <<bound, epoch, calls, patchVars, ctorVars, fwdVars, peVars,
                   mhaVars>>

\* train(model, train_loader, ...): one batch of the loop over the loader
TrainBatch ==
    /\ mpc = "train"
    /\ step < bound["train_loader"]
    /\ step' = step + 1
    /\ UNCHANGED <<mpc, bound, epoch, calls, patchVars, ctorVars, fwdVars, peVars,
                   mhaVars>>

\* train: the loop over the loader is over, the averages are printed
TrainReturns ==
    /\ mpc = "train"
    /\ step = bound["train_loader"]
    /\ calls' = Append(calls, [fn |-> "train", loader |-> "train_loader"])
    /\ mpc' = "validate"
    /\ UNCHANGED <<bound, epoch, step, patchVars, ctorVars, fwdVars, peVars,
                   mhaVars>>

\* The name main passes to validate as its dataloader.
ValidateLoaderName == "validation_loader"

\* validate(model, validation_loader, criterion, device): the arguments are
\* evaluated, then validate runs over the loader and the loop goes on.
CallValidate ==
    /\ mpc = "validate"
    /\ IF IsBound(ValidateLoaderName)
       THEN /\ calls' = Append(calls, [fn |-> "validate",
                                      loader |-> ValidateLoaderName])
            /\ epoch' = epoch + 1
            /\ mpc' = "epoch"
       ELSE /\ mpc' = "raised"
            /\ UNCHANGED <<calls, epoch>>
    /\ UNCHANGED <<bound, step, patchVars, ctorVars, fwdVars, peVars, mhaVars>>

NextMain ==
    \/ LoadDataOk
    \/ LoadDataRaises
    \/ InitializeModel
    \/ EpochLoop
    \/ TrainBatch
    \/ TrainReturns
    \/ CallValidate

SpecMain == InitMain /\ [][NextMain]_vars

(***************************************************************************)
(* Properties of patchify.                                                 *)
(***************************************************************************)
Patchified == patches # NoTensor

\* The configured geometry: the image side is a multiple of the patch side.
TilesExactly == images.shape[3] % model.patch_size = 0

TilesPerRow == images.shape[4] \div model.patch_size

\* C1: for an image batch [B,3,H,W] whose side is divisible by patch_size p,
\* patchify returns [B,N,3*p*p] and row n = r*(W/p)+c holds tile (r,c) of all
\* three channels: element ch*p*p + i*p + j is images[b, ch, r*p+i, c*p+j].
C1_RowIsTile ==
    (Patchified /\ TilesExactly) =>
        LET p == model.patch_size
            B == images.shape[1]
        IN /\ patches.err = ""
           /\ patches.shape = <<B, TilesPerRow * TilesPerRow, 3 * p * p>>
           /\ \A b \in 0..(B - 1), r, c \in 0..(TilesPerRow - 1),
                 ch \in 0..2, i, j \in 0..(p - 1) :
                   At(patches, <<b, r * TilesPerRow + c, ch * p * p + i * p + j>>)
                     = At(images, <<b, ch, r * p + i, c * p + j>>)

\* The image rebuilt by putting patch n back as the 3 x p x p tile at scan
\* position n, row-major over the tiles.
Reassemble(pt, shape, p) ==
    [k \in 1..Prod(shape) |->
        LET idx == Unravel(shape, k - 1)
            n == (idx[3] \div p) * (shape[4] \div p) + (idx[4] \div p)
            e == idx[2] * p * p + (idx[3] % p) * p + (idx[4] % p)
        IN pt.data[Ravel(<<shape[1], (shape[3] \div p) * (shape[4] \div p),
                           3 * p * p>>, <<idx[1], n, e>>) + 1]]

\* C2: for patch_size dividing img_size, patchify gives (img_size/patch_size)^2
\* patches of length 3*patch_size^2 each, and putting the patches back as
\* tiles in scan order rebuilds the image exactly.
C2_RoundTrip ==
    (Patchified /\ TilesExactly) =>
        /\ patches.err = ""
        /\ patches.shape[2] = model.num_patches
        /\ patches.shape[3] = 3 * model.patch_size * model.patch_size
        /\ Reassemble(patches, images.shape, model.patch_size) = images.data

(***************************************************************************)
(* Properties of construction.                                             *)
(***************************************************************************)
\* C3: constructing TransformerEncoder with img_size not divisible by
\* patch_size raises; no object is produced.
C3_IndivisibleImageRejected ==
    (built.cls = "TransformerEncoder" /\ args.img_size % args.patch_size # 0)
        => built.status = "raised"

\* C4: with d_model not divisible by num_heads, constructing
\* MultiHeadAttention, EncoderLayer or TransformerEncoder raises, and what
\* raises is the divisibility assertion.
C4_IndivisibleHeadsRejected ==
    (built.cls # "" /\ args.d_model % args.num_heads # 0)
        => /\ built.status = "raised"
           /\ built.error = "AssertionError"
           /\ built.site = "MultiHeadAttention.__init__"

(***************************************************************************)
(* Properties of forward.                                                  *)
(***************************************************************************)
\* The input differs from [B, 3, img_size, img_size].
InputMismatch ==
    \/ images.shape[2] # 3
    \/ images.shape[3] # args.img_size
    \/ images.shape[4] # args.img_size

\* C5: forward raises for every input whose channel count is not 3 or whose
\* height or width is not img_size; it returns logits for no such input.
C5_MismatchNeverReturns == (pc = "returned") => ~InputMismatch

ValidCall == args.img_size % args.patch_size = 0 /\ ~InputMismatch

LayerStages == <<"attention", "add", "norm1", "ffn", "add", "norm2">>

StageCount == 3 + 6 * args.num_layers + 3

\* The k-th operation of a forward call, as [op, layer].
ExpectedStage(k) ==
    IF k <= 3
    THEN [op |-> <<"patchify", "patch_embedding", "positional_encoding">>[k],
          layer |-> 0]
    ELSE IF k <= 3 + 6 * args.num_layers
    THEN [op |-> LayerStages[((k - 4) % 6) + 1], layer |-> ((k - 4) \div 6) + 1]
    ELSE [op |-> <<"norm", "mean", "fc">>[k - 3 - 6 * args.num_layers],
          layer |-> 0]

\* C7: forward applies patchify, patch embedding, positional encoding, each
\* of the num_layers encoder layers once and in order (each consuming the
\* output of the stage before it), the final normalisation, the mean over
\* the patch axis and the classification projection, in this order; the
\* tensor is [B,N,d_model] from the positional encoding to the pooling and
\* the result is [B,num_classes].
C7_StageOrder ==
    ValidCall =>
        LET B == images.shape[1]
            N == (args.img_size \div args.patch_size)
                   * (args.img_size \div args.patch_size)
        IN /\ pc # "raised"
           /\ Len(log) <= StageCount
           /\ \A k \in 1..Len(log) :
                /\ log[k].op = ExpectedStage(k).op
                /\ log[k].layer = ExpectedStage(k).layer
                /\ log[k].out = k
                /\ log[k].op \notin {"add", "norm1", "ffn", "norm2"}
                     => \A a \in 1..Len(log[k].args) : log[k].args[a] = k - 1
                /\ (k >= 3 /\ k <= StageCount - 2)
                     => log[k].shape = <<B, N, args.d_model>>
           /\ pc = "returned" =>
                /\ Len(log) = StageCount
                /\ x = [id |-> StageCount, shape |-> <<B, args.num_classes>>]

C7_Witness ==
    /\ pc = "returned"
    /\ ValidCall
    /\ args.num_layers = 2
    /\ args.img_size \div args.patch_size > 1
    /\ images.shape[1] > 1

\* C8: every EncoderLayer.forward call computes x1 = norm1(x + attention(x,x,x))
\* and then x2 = norm2(x1 + ffn(x1)): each normalisation is applied to the
\* residual sum, the feed-forward block consumes the normalised output of
\* the attention stage, and the result has the shape of the input.
C8_TwoStages ==
    \A i \in 1..args.num_layers :
        LET base == 3 + 6 * (i - 1)
            xin == log[base].out
            e(j) == log[base + j]
            has(j) == base + j <= Len(log)
        IN /\ has(1) => e(1).op = "attention" /\ e(1).args = <<xin, xin, xin>>
           /\ has(2) => e(2).op = "add" /\ e(2).args = <<xin, e(1).out>>
           /\ has(3) => e(3).op = "norm1" /\ e(3).args = <<e(2).out>>
           /\ has(4) => e(4).op = "ffn" /\ e(4).args = <<e(3).out>>
           /\ has(5) => e(5).op = "add" /\ e(5).args = <<e(3).out, e(4).out>>
           /\ has(6) => /\ e(6).op = "norm2" /\ e(6).args = <<e(5).out>>
                        /\ e(6).shape = log[base].shape
                        /\ (Len(log) = base + 6 => x.id = e(6).out)
           /\ \A j \in 1..6 : has(j) => e(j).layer = i

C8_Witness ==
    /\ layer = 2
    /\ Len(log) = 15
    /\ log[15].op = "norm2"
    /\ x = [id |-> 15, shape |-> log[9].shape]

(***************************************************************************)
(* Properties of PositionalEncoding.forward.                               *)
(***************************************************************************)
\* C6: for x of shape [B,L,d_model], PositionalEncoding.forward returns
\* x + pe[:, :L, :] broadcast over the batch alone when L <= max_len, and
\* raises when L > max_len, for every max_len >= 1.
C6_TableNeverStretched ==
    (pe_output # NoTensor /\ model.max_len >= 1) =>
        IF pe_input.shape[2] <= model.max_len
        THEN /\ pe_output.err = ""
             /\ pe_output.shape = pe_input.shape
             /\ \A b \in 0..(pe_input.shape[1] - 1),
                   l \in 0..(pe_input.shape[2] - 1),
                   i \in 0..(pe_input.shape[3] - 1) :
                     At(pe_output, <<b, l, i>>)
                       = [lhs |-> At(pe_input, <<b, l, i>>), rhs |-> <<l, i>>]
        ELSE pe_output.err # ""

(***************************************************************************)
(* Properties of the head split and concatenation.                         *)
(***************************************************************************)
\* C9: the head split sends feature f of position l to head f div d_k,
\* offset f mod d_k, of [B,num_heads,L,d_k], and concatenating the heads
\* returns every element to its (batch, position, feature) index.
C9_ConcatInvertsSplit ==
    /\ heads # NoTensor =>
         /\ heads.err = ""
         /\ heads.shape = <<projected.shape[1], model.num_heads,
                            projected.shape[2], model.d_k>>
         /\ \A b \in 0..(projected.shape[1] - 1),
               l \in 0..(projected.shape[2] - 1),
               f \in 0..(projected.shape[3] - 1) :
                 At(heads, <<b, f \div model.d_k, l, f % model.d_k>>)
                   = At(projected, <<b, l, f>>)
    /\ merged # NoTensor => merged = projected

C9_Witness ==
    /\ merged # NoTensor
    /\ model.num_heads = 2
    /\ model.d_k = 2
    /\ projected.shape = <<2, 3, 4>>
    /\ At(projected, <<1, 1, 2>>) = 1

(***************************************************************************)
(* Properties of main.                                                     *)
(***************************************************************************)
MainOver == mpc \in {"done", "raised", "returned"}

\* The calls of num_epochs epochs: train on the training loader, then
\* validate on the loader made from val_data.
ExpectedCalls ==
    [k \in 1..(2 * num_epochs) |->
        IF k % 2 = 1 THEN [fn |-> "train", loader |-> "train_loader"]
        ELSE [fn |-> "validate", loader |-> "val_loader"]]

\* C10: once data loading has succeeded, every epoch calls train on the
\* training loader and then validate on the validation loader, and main
\* completes all num_epochs epochs; if data loading raises, main returns
\* before a model is constructed or an epoch runs.
C10_AllEpochsRun ==
    /\ (MainOver /\ IsBound("val_loader")) =>
          /\ mpc = "done"
          /\ epoch = num_epochs
          /\ calls = ExpectedCalls
    /\ (MainOver /\ ~IsBound("val_loader")) =>
          /\ mpc = "returned"
          /\ built = NotBuilt
          /\ calls = <<>>

====
